---------------------------- MODULE Spec2Model ----------------------------
(***************************************************************************)
(* A model of tabpfn/priors/real.py: the dataset container                 *)
(* (TabularDataset), the greedy coreset sampler (CoresetSampler), the      *)
(* subset engine (SubsetMaker) and the preprocessing pipeline              *)
(* (process_data).                                                         *)
(*                                                                         *)
(* Conventions.  A Python Optional is a sequence of length at most one:    *)
(* None is <<>> and a value v is <<v>>.  A 2-d array is a record           *)
(* [shape |-> <<rows, cols>>, d |-> the sequence of its rows]; a 1-d array  *)
(* is a sequence.  Column and row indices are the 0-based ones of the      *)
(* source; the sequences that hold the data are 1-based.                   *)
(***************************************************************************)
EXTENDS Integers, Sequences, FiniteSets, TLC

VARIABLES
    ds,     \* the TabularDataset object (Optional: <<>> before construction)
    fs,     \* the directory p on disk: does it exist, who made it, its files
    rd,     \* the object returned by the last successful TabularDataset.read
    ret,    \* the last container call: its name, its arguments, its outcome
    ssm,    \* the SubsetMaker object
    out,    \* the last make_subset call: its arguments and its outcome
    cs,     \* one run of CoresetSampler._compute_greedy_coreset_indices
    pd      \* one run of process_data

vars == <<ds, fs, rd, ret, ssm, out, cs, pd>>

(***************************************************************************)
(* Bounds of the model.                                                    *)
(***************************************************************************)
MaxRows == 2        \* rows of a feature matrix
MaxCols == 2        \* columns of a feature matrix
MaxPoints == 3      \* rows of the features given to the coreset sampler

(***************************************************************************)
(* Python and numpy helpers.                                               *)
(***************************************************************************)
None == <<>>
Some(v) == <<v>>
IsNone(o) == o = <<>>
Get(o) == o[1]

Range(f) == {f[i] : i \in DOMAIN f}

RECURSIVE SetMax(_)
SetMax(S) ==
    LET x == CHOOSE y \in S : TRUE
    IN  IF S = {x} THEN x
        ELSE LET m == SetMax(S \ {x}) IN IF x > m THEN x ELSE m

\* the members of the set S of integers in ascending order
RECURSIVE Ascending(_)
Ascending(S) ==
    IF S = {} THEN <<>>
    ELSE Append(Ascending(S \ {SetMax(S)}), SetMax(S))

NumRows(X) == X.shape[1]
NumCols(X) == X.shape[2]

\* X[:, j] for a 0-based column index j
Column(X, j) == [i \in 1..NumRows(X) |-> X.d[i][j + 1]]

\* X with column j (0-based) replaced by the vector col
SetColumn(X, j, col) ==
    [X EXCEPT !.d = [i \in 1..NumRows(X) |->
                        [X.d[i] EXCEPT ![j + 1] = col[i]]]]

\* sklearn LabelEncoder: classes_ are the sorted distinct values, and
\* fit_transform maps each value to its position among them
LabelEncoderClasses(col) == Range(col)
LabelEncoderFitTransform(col) ==
    [i \in DOMAIN col |->
        Cardinality({v \in LabelEncoderClasses(col) : v < col[i]})]

(***************************************************************************)
(* TabularDataset.__init__                                                 *)
(***************************************************************************)
TargetTypes == {"regression", "classification", "binary"}

\* The assertions of the constructor, in the order of the source.  X is
\* 2-dimensional and y, s are 1-dimensional in every input of the model.
InitAssertsHold(a) ==
    /\ NumRows(a.X) = Len(a.y)
    /\ IF ~IsNone(a.num_instances)
         THEN /\ NumRows(a.X) = Get(a.num_instances)
              /\ Len(a.y) = Get(a.num_instances)
              /\ Len(a.s) = Get(a.num_instances)
         ELSE TRUE
    /\ IF ~IsNone(a.num_features)
         THEN NumCols(a.X) = Get(a.num_features)
         ELSE TRUE
    /\ LET nf == IF ~IsNone(a.num_features) THEN Get(a.num_features)
                 ELSE NumCols(a.X)
       IN  Len(a.cat_idx) > 0 => SetMax(Range(a.cat_idx)) <= nf - 1
    /\ a.target_type \in TargetTypes
    /\ a.target_type = "regression" => a.num_classes = 1
    /\ a.target_type = "binary" => a.num_classes = 1
    /\ a.target_type = "classification" => a.num_classes > 2

\* The object the constructor builds when its assertions hold.
TabularDataset(a) ==
    [ name          |-> a.name,
      X             |-> a.X,
      y             |-> a.y,
      s             |-> a.s,
      cat_idx       |-> a.cat_idx,
      target_type   |-> a.target_type,
      num_classes   |-> a.num_classes,
      num_features  |-> IF ~IsNone(a.num_features) THEN Get(a.num_features)
                        ELSE NumCols(a.X),
      cat_dims      |-> a.cat_dims,
      num_instances |-> IF ~IsNone(a.num_instances) THEN Get(a.num_instances)
                        ELSE NumRows(a.X),
      split_indeces |-> a.split_indeces,
      split_source  |-> a.split_source ]

(***************************************************************************)
(* TabularDataset.cat_feature_encode                                       *)
(***************************************************************************)
\* a guard that tests the list's truth value, "if self.cat_dims: raise",
\* which lets an empty cat_dims through
CatDimsNonEmpty(d) == ~IsNone(d.cat_dims) /\ Len(Get(d.cat_dims)) > 0

\* the guard of the source: "if not self.cat_dims is None: raise"
CatDimsAlreadySet(d) == ~IsNone(d.cat_dims)

\* the loop "for i in range(self.num_features)", from column i on: st holds
\* X and the list cat_dims built so far
RECURSIVE CatEncodeLoop(_, _, _, _)
CatEncodeLoop(st, cat_idx, i, nf) ==
    IF i >= nf THEN st
    ELSE IF Len(cat_idx) > 0 /\ i \in Range(cat_idx)
         THEN CatEncodeLoop(
                [X        |-> SetColumn(st.X, i,
                                LabelEncoderFitTransform(Column(st.X, i))),
                 cat_dims |-> Append(st.cat_dims,
                                Cardinality(LabelEncoderClasses(Column(st.X, i))))],
                cat_idx, i + 1, nf)
         ELSE CatEncodeLoop(st, cat_idx, i + 1, nf)

cat_feature_encode(d) ==
    LET st == CatEncodeLoop([X |-> d.X, cat_dims |-> <<>>],
                            d.cat_idx, 0, d.num_features)
    IN  [d EXCEPT !.X = st.X, !.cat_dims = Some(st.cat_dims)]

(***************************************************************************)
(* TabularDataset.get_metadata, write and read, over one directory p.      *)
(* A directory is [exists, origin, files]: files maps the names of the     *)
(* files in it to their contents.                                          *)
(***************************************************************************)
get_metadata(d) ==
    [ name          |-> d.name,
      cat_idx       |-> d.cat_idx,
      cat_dims      |-> d.cat_dims,
      target_type   |-> d.target_type,
      num_classes   |-> d.num_classes,
      num_features  |-> d.num_features,
      num_instances |-> d.num_instances,
      split_source  |-> d.split_source ]

\* A Python object handed to np.save is first made an array: an ndarray stays
\* what it is, a list becomes a 1-d array of its items, and None becomes a
\* 0-d object array (which is no longer None when loaded).
PyNone == [kind |-> "None", items |-> <<>>]
PyList(items) == [kind |-> "list", items |-> items]
NpAsArray(o) ==
    CASE o.kind = "None" -> [kind |-> "ndarray0d", items |-> <<>>]
      [] o.kind = "list" -> [kind |-> "ndarray", items |-> o.items]
      [] OTHER           -> o

NpSave(arr) == [fmt |-> "npy.gz", arr |-> arr]
NpLoad(file) == file.arr
\* json.dump then json.load: strings, integers, lists of integers and null
\* come back as they went in
JsonDump(obj) == [fmt |-> "json", obj |-> obj]
JsonLoad(file) == file.obj

NoFiles == [f \in {} |-> 0]
AbsentDir == [exists |-> FALSE, origin |-> "absent", files |-> NoFiles]

PutFile(files, fname, content) ==
    [f \in (DOMAIN files) \cup {fname} |->
        IF f = fname THEN content ELSE files[f]]

\* Python's ~ on a bool is the bitwise complement of the integer: ~True is -2
\* and ~False is -1, and an assert passes on any non-zero integer
BitInvert(b) == IF b THEN -2 ELSE -1
Truthy(n) == n # 0

\* "if not overwrite: assert ~p.exists()"
WriteAssertHolds(dir, overwrite) ==
    overwrite \/ Truthy(BitInvert(dir.exists))

\* a mkdir that is always called with exist_ok=True
MkdirExistOk(dir, exist_ok) == FALSE

\* Path.mkdir(parents=True, exist_ok=...): fails on an existing directory
\* unless exist_ok
MkdirFails(dir, exist_ok) == dir.exists /\ ~exist_ok
Mkdir(dir) ==
    IF dir.exists THEN dir
    ELSE [exists |-> TRUE, origin |-> "created", files |-> NoFiles]

\* the files write() stores, in the order of the source
WriteFiles(d, files) ==
    LET f1 == PutFile(files, "X.npy.gz", NpSave(d.X))
        f2 == PutFile(f1, "y.npy.gz", NpSave(d.y))
        f3 == PutFile(f2, "split_indeces.npy.gz",
                      NpSave(NpAsArray(d.split_indeces)))
    IN  PutFile(f3, "metadata.json", JsonDump(get_metadata(d)))

\* write(p, overwrite): the error raised ("none" on return) and the directory
\* afterwards
write(d, dir, overwrite) ==
    IF ~WriteAssertHolds(dir, overwrite)
    THEN [err |-> "AssertionError", dir |-> dir]
    ELSE IF MkdirFails(dir, overwrite)
    THEN [err |-> "FileExistsError", dir |-> dir]
    ELSE [err |-> "none",
          dir |-> [Mkdir(dir) EXCEPT !.files = WriteFiles(d, Mkdir(dir).files)]]

\* the five files read() asserts to exist
ReadRequires ==
    {"X.npy.gz", "y.npy.gz", "sens_a.npy.gz", "metadata.json",
     "split_indeces.npy.gz"}

\* kwargs of "cls(**kwargs)": the metadata and the four loaded arrays
ReadKwargs(dir) ==
    LET m == JsonLoad(dir.files["metadata.json"])
    IN  [ name          |-> m.name,
          X             |-> NpLoad(dir.files["X.npy.gz"]),
          y             |-> NpLoad(dir.files["y.npy.gz"]),
          s             |-> NpLoad(dir.files["sens_a.npy.gz"]),
          cat_idx       |-> m.cat_idx,
          target_type   |-> m.target_type,
          num_classes   |-> m.num_classes,
          num_features  |-> Some(m.num_features),
          num_instances |-> Some(m.num_instances),
          cat_dims      |-> m.cat_dims,
          split_indeces |-> NpLoad(dir.files["split_indeces.npy.gz"]),
          split_source  |-> m.split_source ]

\* read(p): the error raised ("none" on return) and the object returned
read(dir) ==
    IF ~(ReadRequires \subseteq DOMAIN dir.files)
    THEN [err |-> "AssertionError", obj |-> None]
    ELSE IF ~InitAssertsHold(ReadKwargs(dir))
    THEN [err |-> "AssertionError", obj |-> None]
    ELSE [err |-> "none", obj |-> Some(TabularDataset(ReadKwargs(dir)))]

(***************************************************************************)
(* Inputs of the container's operations.                                   *)
(***************************************************************************)
Vals == {1, 3}      \* raw cell values

Matrices(n, m) ==
    {[shape |-> <<n, m>>, d |-> d] : d \in [1..n -> [1..m -> Vals]]}

\* the matrix whose cell (i, j), 0-based, holds 10 * i + j + base: every cell
\* differs from every other
IdMatrix(n, m, base) ==
    [shape |-> <<n, m>>,
     d |-> [i \in 1..n |-> [j \in 1..m |-> base + 10 * (i - 1) + (j - 1)]]]

YLabels(n) == [i \in 1..n |-> i % 2]
SLabels(n) == [i \in 1..n |-> (i + 1) % 2]

OptInts(S) == {None} \cup {Some(v) : v \in S}

\* (target_type, num_classes) pairs, valid and not
TargetSpecs ==
    {<<"regression", 1>>, <<"binary", 1>>, <<"classification", 3>>,
     <<"regression", 2>>, <<"binary", 2>>, <<"classification", 2>>,
     <<"ordinal", 1>>}

\* lists of distinct column indices, in any order, also with the index
\* MaxCols that no matrix of the model has
CatIdxLists ==
    UNION {{l \in [1..k -> 0..MaxCols] :
              \A i, j \in 1..k : i # j => l[i] # l[j]} : k \in 0..MaxCols}

\* cat_dims as passed to the constructor: absent, or a list (read passes the
\* one of the metadata)
CatDimsArgs == {None, Some(<<>>), Some(<<2>>)}

Args(X, y, s, cat_idx, ts, nf, ni, cat_dims, si) ==
    [ name |-> "d", X |-> X, y |-> y, s |-> s, cat_idx |-> cat_idx,
      target_type |-> ts[1], num_classes |-> ts[2],
      num_features |-> nf, num_instances |-> ni, cat_dims |-> cat_dims,
      split_indeces |-> si, split_source |-> None ]

(***************************************************************************)
(* The container's operations as actions.                                  *)
(***************************************************************************)
Call(op, overwrite, err) == [op |-> op, overwrite |-> overwrite, err |-> err]

DatasetIdle == UNCHANGED <<ssm, out, cs, pd>>

Constructing(a) ==
    /\ IF InitAssertsHold(a)
         THEN /\ ds' = Some(TabularDataset(a))
              /\ ret' = Call("__init__", FALSE, "none")
         ELSE /\ ds' = ds
              /\ ret' = Call("__init__", FALSE, "AssertionError")
    /\ UNCHANGED <<fs, rd>>
    /\ DatasetIdle

\* constructor calls that vary the shapes and the optional arguments
ConstructShapes ==
    /\ IsNone(ds)
    /\ \E n \in 0..MaxRows, m \in 0..MaxCols, ny \in 0..MaxRows,
       ns \in 0..MaxRows, ts \in TargetSpecs,
       nf \in OptInts(0..MaxCols), ni \in OptInts(0..MaxRows) :
        Constructing(Args(IdMatrix(n, m, 0), YLabels(ny), SLabels(ns), <<>>,
                          ts, nf, ni, None, PyNone))

\* constructor calls that vary the cells of X, cat_idx and cat_dims
ConstructContents ==
    /\ IsNone(ds)
    /\ \E n \in 1..MaxRows, m \in 1..MaxCols :
        \E X \in Matrices(n, m), ci \in CatIdxLists, cd \in CatDimsArgs :
            Constructing(Args(X, YLabels(n), SLabels(n), ci, <<"binary", 1>>,
                              None, None, cd, PyNone))

CatFeatureEncode ==
    /\ ~IsNone(ds)
    /\ IF CatDimsAlreadySet(Get(ds))
         THEN /\ ds' = ds
              /\ ret' = Call("cat_feature_encode", FALSE, "RuntimeError")
         ELSE /\ ds' = Some(cat_feature_encode(Get(ds)))
              /\ ret' = Call("cat_feature_encode", FALSE, "none")
    /\ UNCHANGED <<fs, rd>>
    /\ DatasetIdle

Write(overwrite) ==
    /\ ~IsNone(ds)
    /\ LET r == write(Get(ds), fs, overwrite)
       IN  /\ fs' = r.dir
           /\ ret' = Call("write", overwrite, r.err)
    /\ UNCHANGED <<ds, rd>>
    /\ DatasetIdle

WriteNew == Write(FALSE)
WriteOver == Write(TRUE)

Read ==
    /\ LET r == read(fs)
       IN  /\ rd' = r.obj
           /\ ret' = Call("read", FALSE, r.err)
    /\ UNCHANGED <<ds, fs>>
    /\ DatasetIdle

\* the values the other components' variables hold while one component runs
Idle == [pc |-> "idle"]

(***************************************************************************)
(* SpecDataset: construction and categorical encoding.                     *)
(***************************************************************************)
InitDataset ==
    /\ ds = None
    /\ fs = AbsentDir
    /\ rd = None
    /\ ret = Call("none", FALSE, "none")
    /\ ssm = Idle /\ out = Idle /\ cs = Idle /\ pd = Idle

NextDataset == ConstructShapes \/ ConstructContents \/ CatFeatureEncode

SpecDataset == InitDataset /\ [][NextDataset]_vars

(***************************************************************************)
(* SpecIO: write and read of a constructed dataset over a directory that   *)
(* is absent or holds an earlier dataset.                                  *)
(***************************************************************************)
SplitIndeces ==
    {PyNone, PyList(<<[train |-> <<0>>, val |-> <<>>, test |-> <<>>]>>)}

IOArgs ==
    {Args(IdMatrix(n, m, 0), YLabels(n), SLabels(n), <<>>, <<"binary", 1>>,
          None, None, cd, si) :
        n \in 1..MaxRows, m \in 1..MaxCols, cd \in {None, Some(<<>>)},
        si \in SplitIndeces}

\* a directory as it is distributed: all five files of one dataset
StoredDir(d) ==
    [exists |-> TRUE, origin |-> "preexisting",
     files |-> PutFile(WriteFiles(d, NoFiles), "sens_a.npy.gz", NpSave(d.s))]

OldArgs(n) ==
    Args(IdMatrix(n, 1, 50), YLabels(n), SLabels(n), <<>>, <<"binary", 1>>,
         None, None, None, PyList(<<>>))

InitDirs == {AbsentDir} \cup {StoredDir(TabularDataset(OldArgs(n))) : n \in 1..MaxRows}

InitIO ==
    /\ ds \in {Some(TabularDataset(a)) : a \in {b \in IOArgs : InitAssertsHold(b)}}
    /\ fs \in InitDirs
    /\ rd = None
    /\ ret = Call("__init__", FALSE, "none")
    /\ ssm = Idle /\ out = Idle /\ cs = Idle /\ pd = Idle

NextIO == WriteNew \/ WriteOver \/ Read

SpecIO == InitIO /\ [][NextIO]_vars

(***************************************************************************)
(* CoresetSampler.  Distances are kept as integers: with M starting        *)
(* points, the anchor distance of a row is held as M times its value, so   *)
(* that the mean over the starting points is their sum and a squared       *)
(* distance d enters the minimum as M * d.                                 *)
(***************************************************************************)
Min(a, b) == IF a <= b THEN a ELSE b

RECURSIVE SumSeq(_)
SumSeq(q) == IF q = <<>> THEN 0 ELSE q[1] + SumSeq(Tail(q))

\* _compute_batchwise_differences for one pair of rows: the squared
\* Euclidean distance
SqDist(a, b) == SumSeq([j \in 1..Len(a) |-> (a[j] - b[j]) * (a[j] - b[j])])

\* np.clip(self.number_of_starting_points, None, len(features))
ClipStartingPoints(m, features) == Min(m, NumRows(features))

\* np.mean(approximate_distance_matrix, axis=-1), times the number of
\* starting points: start is the set of 0-based rows rng.choice drew
InitialAnchorDistances(features, start) ==
    [i \in 1..NumRows(features) |->
        SumSeq([p \in 1..Cardinality(start) |->
                  SqDist(features.d[i],
                         features.d[Ascending(start)[p] + 1])])]

\* np.argmax: the 0-based position of the first maximum
\* a variant that takes the last maximum
ArgMaxLast(dist) ==
    (CHOOSE i \in 1..Len(dist) :
        /\ \A j \in 1..Len(dist) : dist[j] <= dist[i]
        /\ \A j \in (i + 1)..Len(dist) : dist[j] < dist[i]) - 1

ArgMax(dist) ==
    (CHOOSE i \in 1..Len(dist) :
        /\ \A j \in 1..Len(dist) : dist[j] <= dist[i]
        /\ \A j \in 1..(i - 1) : dist[j] < dist[i]) - 1

\* a minimum that forgets the previous anchor distance
UpdateToSelected(features, M, dist, select_idx) ==
    [i \in 1..NumRows(features) |->
        M * SqDist(features.d[i], features.d[select_idx + 1])]

\* the concatenate and np.min(.., axis=1) of one iteration
UpdateAnchorDistances(features, M, dist, select_idx) ==
    [i \in 1..NumRows(features) |->
        Min(dist[i], M * SqDist(features.d[i], features.d[select_idx + 1]))]

\* one iteration of "for _ in range(num_coreset_samples)"
CoresetIteration(c) ==
    LET select_idx == ArgMax(c.dist)
    IN  [c EXCEPT !.idx = Append(c.idx, select_idx),
                  !.dist = UpdateAnchorDistances(c.features, c.M, c.dist,
                                                 select_idx)]

\* the sampler's locals when the loop is entered
CoresetStart(features, k, m, start) ==
    [ pc       |-> "loop",
      features |-> features,
      k        |-> k,
      m        |-> m,
      M        |-> ClipStartingPoints(m, features),
      start    |-> start,
      dist     |-> InitialAnchorDistances(features, start),
      idx      |-> <<>> ]

RECURSIVE CoresetLoop(_)
CoresetLoop(c) ==
    IF Len(c.idx) >= c.k THEN c.idx ELSE CoresetLoop(CoresetIteration(c))

\* _compute_greedy_coreset_indices as a function of the features and of the
\* starting rows drawn
compute_greedy_coreset_indices(features, k, m, start) ==
    CoresetLoop(CoresetStart(features, k, m, start))

\* the feature matrices of the model: cells 0 and 1, in one or two dimensions
Coords == {0, 1}
Dims == {1, 2}
FeatureMatrices(n, m) ==
    {[shape |-> <<n, m>>, d |-> d] : d \in [1..n -> [1..m -> Coords]]}

\* the sets rng.choice(len(features), M, replace=False) can draw
StartSets(features, m) ==
    {S \in SUBSET (0..(NumRows(features) - 1)) :
        Cardinality(S) = ClipStartingPoints(m, features)}

CoresetIdle == UNCHANGED <<ds, fs, rd, ret, ssm, out, pd>>

CoresetIterate ==
    /\ cs.pc = "loop"
    /\ Len(cs.idx) < cs.k
    /\ cs' = CoresetIteration(cs)
    /\ CoresetIdle

CoresetReturn ==
    /\ cs.pc = "loop"
    /\ Len(cs.idx) >= cs.k
    /\ cs' = [cs EXCEPT !.pc = "returned"]
    /\ CoresetIdle

InitCoreset ==
    /\ \E n \in 1..MaxPoints, d \in Dims :
         \E features \in FeatureMatrices(n, d), k \in 1..(MaxPoints + 1),
            m \in 1..(MaxPoints + 1) :
           \E start \in StartSets(features, m) :
              cs = CoresetStart(features, k, m, start)
    /\ ds = Idle /\ fs = Idle /\ rd = Idle /\ ret = Idle
    /\ ssm = Idle /\ out = Idle /\ pd = Idle

NextCoreset == CoresetIterate \/ CoresetReturn

SpecCoreset == InitCoreset /\ [][NextCoreset]_vars

(***************************************************************************)
(* SubsetMaker.  The object is [subset_features, subset_rows,              *)
(* subset_features_method, subset_rows_method, row_selector,               *)
(* feature_selector]; a method's outcome is [err, arg, ret, sel]: the      *)
(* error raised ("none" on return) with the name its message carries, the  *)
(* tuple returned, and feature_selector afterwards.                        *)
(***************************************************************************)
SubsetMaker(sf, sr, fm, rm) ==
    [ subset_features        |-> sf,
      subset_rows            |-> sr,
      subset_features_method |-> fm,
      subset_rows_method     |-> rm,
      row_selector           |-> None,
      feature_selector       |-> None ]

Arange(n) == [i \in 1..n |-> i - 1]

\* numpy X[row_indices[:, None], feature_indices] with 0-based index lists
Take(X, ri, ci) ==
    [shape |-> <<Len(ri), Len(ci)>>,
     d |-> [i \in 1..Len(ri) |-> [j \in 1..Len(ci) |-> X.d[ri[i] + 1][ci[j] + 1]]]]

\* numpy v[row_indices]
TakeVec(v, ri) == [i \in 1..Len(ri) |-> v[ri[i] + 1]]

Raised(err, arg, sel) == [err |-> err, arg |-> arg, ret |-> <<>>, sel |-> sel]
Returned(tup, sel) == [err |-> "none", arg |-> "", ret |-> tup, sel |-> sel]

\* A Python call f(a1, .., an, k1=.., ..) against the parameter list params
\* (self left out): a keyword that names one of the first n parameters gives
\* "TypeError: got multiple values for argument", and more positional
\* arguments than parameters give a TypeError too.
CallBinds(params, npos, kw) ==
    /\ npos <= Len(params)
    /\ \A i \in 1..npos : params[i] \notin kw
    /\ kw \subseteq Range(params)

\* random_subset: draw holds what np.random.choice(.., replace=False) gave
random_subset(self, X, y, s, action, draw) ==
    LET row_indices == IF "rows" \in action THEN draw.rows
                       ELSE Arange(NumRows(X))
        feature_indices == IF "features" \in action THEN draw.cols
                           ELSE Arange(NumCols(X))
    IN  Returned(<<Take(X, row_indices, feature_indices),
                   TakeVec(y, row_indices), TakeVec(s, row_indices)>>,
                 self.feature_selector)

\* a variant that slices X by rows and returns y and s whole
first_subset_unaligned(self, X, y, s, action) ==
    Returned(<<Take(X, IF "rows" \in action THEN Arange(Min(self.subset_rows, NumRows(X)))
                       ELSE Arange(NumRows(X)),
                    IF "features" \in action
                    THEN Arange(Min(self.subset_features, NumCols(X)))
                    ELSE Arange(NumCols(X))), y, s>>,
             self.feature_selector)

first_subset(self, X, y, s, action) ==
    LET row_indices == IF "rows" \in action THEN Arange(self.subset_rows)
                       ELSE Arange(NumRows(X))
        feature_indices == IF "features" \in action
                           THEN Arange(self.subset_features)
                           ELSE Arange(NumCols(X))
    IN  IF \/ \E i \in 1..Len(row_indices) : row_indices[i] >= NumRows(X)
           \/ \E j \in 1..Len(feature_indices) : feature_indices[j] >= NumCols(X)
        THEN Raised("IndexError", "", self.feature_selector)
        ELSE Returned(<<Take(X, row_indices, feature_indices),
                        TakeVec(y, row_indices), TakeVec(s, row_indices)>>,
                      self.feature_selector)

\* sklearn SelectKBest after fit: the number of columns it was fitted on and
\* the k columns it keeps (support: which k columns have the highest
\* estimated mutual information is decided by the estimator, whose
\* nearest-neighbour estimate is randomised)
SelectKBestFitted(X, support) ==
    [kind |-> "SelectKBest", n_features_in |-> NumCols(X), support |-> support]

\* selector.transform(X): sklearn refuses an X of another width
TransformFails(sel, X) == NumCols(X) # sel.n_features_in
Transform(sel, X) == Take(X, Arange(NumRows(X)), Ascending(sel.support))

Splits == {"train", "val", "test"}

\* a variant that fits on whichever split comes first
mutual_information_subset_any_split(self, X, y, s, split, support) ==
    IF IsNone(self.feature_selector)
    THEN Returned(<<Transform(SelectKBestFitted(X, support), X), y>>,
                  Some(SelectKBestFitted(X, support)))
    ELSE IF TransformFails(Get(self.feature_selector), X)
    THEN Raised("ValueError", "n_features", self.feature_selector)
    ELSE Returned(<<Transform(Get(self.feature_selector), X), y, s>>,
                  self.feature_selector)

mutual_information_subset(self, X, y, s, split, support) ==
    IF split \notin Splits
    THEN Raised("ValueError", "split", self.feature_selector)
    ELSE IF split = "train"
    THEN IF IsNone(self.feature_selector)
         THEN \* fit_transform, and "return X, y"
              Returned(<<Transform(SelectKBestFitted(X, support), X), y>>,
                       Some(SelectKBestFitted(X, support)))
         ELSE IF TransformFails(Get(self.feature_selector), X)
         THEN Raised("ValueError", "n_features", self.feature_selector)
         ELSE Returned(<<Transform(Get(self.feature_selector), X), y>>,
                       self.feature_selector)
    ELSE IF IsNone(self.feature_selector)
    THEN \* None has no attribute transform
         Raised("AttributeError", "transform", self.feature_selector)
    ELSE IF TransformFails(Get(self.feature_selector), X)
    THEN Raised("ValueError", "n_features", self.feature_selector)
    ELSE Returned(<<Transform(Get(self.feature_selector), X), y, s>>,
                  self.feature_selector)

\* sklearn PCA after fit
PCAFitted(X, k) == [kind |-> "PCA", n_features_in |-> NumCols(X), support |-> 0..(k - 1)]

\* pca_subset(self, X, y, action, split): it fits on train and transforms
\* otherwise, and then reaches "return X, y, s", where the name s is not
\* defined
pca_subset(self, X, y, action, split) ==
    IF split \notin Splits
    THEN Raised("ValueError", "split", self.feature_selector)
    ELSE IF split = "train"
    THEN Raised("NameError", "s", Some(PCAFitted(X, self.subset_features)))
    ELSE IF IsNone(self.feature_selector)
    THEN Raised("AttributeError", "transform", self.feature_selector)
    ELSE IF TransformFails(Get(self.feature_selector), X)
    THEN Raised("ValueError", "n_features", self.feature_selector)
    ELSE Raised("NameError", "s", self.feature_selector)

\* K_means_sketch(self, X, y, split, ..): faiss searches the centroids among
\* the centroids themselves, so indices is 0 .. subset_rows - 1
K_means_sketch(self, X, y, split) ==
    IF split \notin Splits
    THEN Raised("ValueError", "split", self.feature_selector)
    ELSE IF split = "train"
    THEN Returned(<<Take(X, Arange(self.subset_rows), Arange(NumCols(X))),
                    TakeVec(y, Arange(self.subset_rows))>>,
                  self.feature_selector)
    ELSE Returned(<<X, y>>, self.feature_selector)

\* coreset_sketch(self, X, y, split, rand_seed, number_of_starting_points):
\* start is what the sampler's rng draws
coreset_sketch(self, X, y, split, number_of_starting_points, start) ==
    IF split \notin Splits
    THEN Raised("ValueError", "split", self.feature_selector)
    ELSE IF split = "train"
    THEN LET indices == compute_greedy_coreset_indices(
                            X, self.subset_rows, number_of_starting_points,
                            start)
         IN  Returned(<<Take(X, indices, Arange(NumCols(X))),
                        TakeVec(y, indices)>>,
                      self.feature_selector)
    ELSE Returned(<<X, y>>, self.feature_selector)

\* number_of_starting_points=5, the default of coreset_sketch
DefaultStartingPoints == 5

\* the parameter lists of the methods make_subset calls, without self
ParamsRandomSubset == <<"X", "y", "s", "action">>
ParamsFirstSubset == <<"X", "y", "s", "action">>
ParamsMutualInformationSubset == <<"X", "y", "s", "action", "split">>
ParamsPcaSubset == <<"X", "y", "action", "split">>
ParamsKMeansSketch ==
    <<"X", "y", "split", "fit_first_only", "rand_seed", "first_only_num">>
ParamsCoresetSketch ==
    <<"X", "y", "split", "rand_seed", "number_of_starting_points">>

\* "X, y, s = <call>": the call's outcome, with the ValueError of unpacking a
\* tuple that has not three items
Unpack3(r) ==
    IF r.err = "none" /\ Len(r.ret) # 3
    THEN Raised("ValueError", "unpack", r.sel)
    ELSE r

\* a feature gate that does not ask for a positive target
FeatureGateAnyTarget(self, X) == NumCols(X) > self.subset_features

\* the gates of make_subset: "X.shape[1] > self.subset_features > 0" and
\* "X.shape[0] > self.subset_rows > 0"
FeatureGate(self, X) ==
    NumCols(X) > self.subset_features /\ self.subset_features > 0
RowGate(self, X) ==
    NumRows(X) > self.subset_rows /\ self.subset_rows > 0

\* the feature branch of make_subset (its gate is open)
FeatureStage(self, X, y, s, split, draw) ==
    CASE self.subset_features_method = "random" ->
           IF CallBinds(ParamsRandomSubset, 3, {"action"})
           THEN Unpack3(random_subset(self, X, y, s, {"features"}, draw))
           ELSE Raised("TypeError", "action", self.feature_selector)
      [] self.subset_features_method = "first" ->
           IF CallBinds(ParamsFirstSubset, 3, {"action"})
           THEN Unpack3(first_subset(self, X, y, s, {"features"}))
           ELSE Raised("TypeError", "action", self.feature_selector)
      [] self.subset_features_method = "mutual_information" ->
           IF CallBinds(ParamsMutualInformationSubset, 3, {"action", "split"})
           THEN Unpack3(mutual_information_subset(self, X, y, s, split,
                                                  draw.support))
           ELSE Raised("TypeError", "action", self.feature_selector)
      [] self.subset_features_method = "pca" ->
           IF CallBinds(ParamsPcaSubset, 3, {"action", "split"})
           THEN Unpack3(pca_subset(self, X, y, s, split))
           ELSE Raised("TypeError", "action", self.feature_selector)
      [] OTHER ->
           Raised("ValueError", self.subset_features_method,
                  self.feature_selector)

\* a row branch without its final else: an unknown name falls through
RowStageNoElse(self, X, y, s, split, draw) ==
    CASE self.subset_rows_method = "random" ->
           Unpack3(random_subset(self, X, y, s, {"rows"}, draw))
      [] self.subset_rows_method = "first" ->
           Unpack3(first_subset(self, X, y, s, {"rows"}))
      [] self.subset_rows_method \in {"kmeans", "coreset"} ->
           Raised("TypeError", "split", self.feature_selector)
      [] OTHER ->
           Returned(<<X, y, s>>, self.feature_selector)

\* the row branch of make_subset (its gate is open)
RowStage(self, X, y, s, split, draw) ==
    CASE self.subset_rows_method = "random" ->
           IF CallBinds(ParamsRandomSubset, 3, {"action"})
           THEN Unpack3(random_subset(self, X, y, s, {"rows"}, draw))
           ELSE Raised("TypeError", "action", self.feature_selector)
      [] self.subset_rows_method = "first" ->
           IF CallBinds(ParamsFirstSubset, 3, {"action"})
           THEN Unpack3(first_subset(self, X, y, s, {"rows"}))
           ELSE Raised("TypeError", "action", self.feature_selector)
      [] self.subset_rows_method = "kmeans" ->
           IF CallBinds(ParamsKMeansSketch, 3,
                        {"split", "fit_first_only", "rand_seed"})
           THEN Unpack3(K_means_sketch(self, X, y, s))
           ELSE Raised("TypeError", "split", self.feature_selector)
      [] self.subset_rows_method = "coreset" ->
           IF CallBinds(ParamsCoresetSketch, 3, {"split", "rand_seed"})
           THEN Unpack3(coreset_sketch(self, X, y, s, DefaultStartingPoints,
                                       draw.start))
           ELSE Raised("TypeError", "split", self.feature_selector)
      [] OTHER ->
           Raised("ValueError", self.subset_rows_method, self.feature_selector)

\* make_subset: the feature branch, then the row branch on what it returned
make_subset(self, X, y, s, split, draw) ==
    LET f == IF FeatureGate(self, X)
             THEN FeatureStage(self, X, y, s, split, draw)
             ELSE Returned(<<X, y, s>>, self.feature_selector)
    IN  IF f.err # "none" THEN f
        ELSE IF RowGate(self, f.ret[1])
        THEN RowStage([self EXCEPT !.feature_selector = f.sel],
                      f.ret[1], f.ret[2], f.ret[3], split, draw)
        ELSE f

(***************************************************************************)
(* Inputs of make_subset, and the engine's actions.                        *)
(***************************************************************************)
FeatureMethods == {"random", "first", "mutual_information", "pca"}
RowMethods == {"random", "first", "kmeans", "coreset"}
\* a name neither branch knows
Unrecognized == "bogus"

IdVec(n, base) == [i \in 1..n |-> base + (i - 1)]

\* the k-element lists of distinct indices below n: what
\* np.random.choice(n, k, replace=False) can return
Choices(n, k) ==
    {l \in [1..k -> 0..(n - 1)] : \A i, j \in 1..k : i # j => l[i] # l[j]}

\* the k-element sets of indices below n
Supports(n, k) == {S \in SUBSET (0..(n - 1)) : Cardinality(S) = k}

\* what the random sources can give in one make_subset call on X; a source
\* the call does not consult gives the empty draw
Draws(self, X, split) ==
    LET cols == IF FeatureGate(self, X) /\ self.subset_features_method = "random"
                THEN Choices(NumCols(X), self.subset_features) ELSE {<<>>}
        rows == IF RowGate(self, X) /\ self.subset_rows_method = "random"
                THEN Choices(NumRows(X), self.subset_rows) ELSE {<<>>}
        sups == IF /\ FeatureGate(self, X)
                   /\ self.subset_features_method = "mutual_information"
                   /\ split = "train"
                   /\ IsNone(self.feature_selector)
                THEN Supports(NumCols(X), self.subset_features) ELSE {{}}
    IN  {[cols |-> c, rows |-> r, support |-> u, start |-> {}] :
            c \in cols, r \in rows, u \in sups}

SubsetIdle == UNCHANGED <<ds, fs, rd, ret, cs, pd>>

MakeSubset(split) ==
    \E n \in 1..MaxRows, m \in 1..MaxCols :
        LET X == IdMatrix(n, m, 0)
            y == IdVec(n, 100)
            s == IdVec(n, 200)
        IN  \E draw \in Draws(ssm, X, split) :
              LET r == make_subset(ssm, X, y, s, split, draw)
              IN  /\ ssm' = [ssm EXCEPT !.feature_selector = r.sel]
                  /\ out' = [pc |-> "called", split |-> split, X |-> X,
                             y |-> y, s |-> s, err |-> r.err, arg |-> r.arg,
                             ret |-> r.ret]
                  /\ SubsetIdle

MakeSubsetTrain == MakeSubset("train")
MakeSubsetVal == MakeSubset("val")
MakeSubsetTest == MakeSubset("test")

InitSubset ==
    /\ ssm \in {SubsetMaker(sf, sr, fm, rm) :
                  sf \in 0..MaxCols, sr \in 0..MaxRows,
                  fm \in FeatureMethods \cup {Unrecognized},
                  rm \in RowMethods \cup {Unrecognized}}
    /\ out = [pc |-> "new", split |-> "", X |-> IdMatrix(0, 0, 0), y |-> <<>>,
              s |-> <<>>, err |-> "none", arg |-> "", ret |-> <<>>]
    /\ ds = Idle /\ fs = Idle /\ rd = Idle /\ ret = Idle
    /\ cs = Idle /\ pd = Idle

NextSubset == MakeSubsetTrain \/ MakeSubsetVal \/ MakeSubsetTest

SpecSubset == InitSubset /\ [][NextSubset]_vars

(***************************************************************************)
(* The selector methods called on the engine directly, next to make_subset:*)
(* pca_subset(X, y, split=split) and mutual_information_subset(X, y, s,    *)
(* split=split) on an engine configured for that strategy, with a feature  *)
(* target the fit accepts.                                                 *)
(***************************************************************************)
PcaSubsetCall ==
    /\ ssm.subset_features_method = "pca"
    /\ \E split \in Splits, n \in 1..MaxRows, m \in 1..MaxCols :
         /\ ssm.subset_features \in 1..Min(n, m)
         /\ LET r == pca_subset(ssm, IdMatrix(n, m, 0), IdVec(n, 100),
                                 "features", split)
            IN  /\ ssm' = [ssm EXCEPT !.feature_selector = r.sel]
                /\ out' = [pc |-> "pca_subset", split |-> split,
                           X |-> IdMatrix(n, m, 0), y |-> IdVec(n, 100),
                           s |-> IdVec(n, 200), err |-> r.err,
                           arg |-> r.arg, ret |-> r.ret]
                /\ SubsetIdle

MutualInformationSubsetCall ==
    /\ ssm.subset_features_method = "mutual_information"
    /\ \E split \in Splits, n \in 1..MaxRows, m \in 1..MaxCols :
         /\ ssm.subset_features \in 1..m
         /\ \E support \in Supports(m, ssm.subset_features) :
              LET r == mutual_information_subset(
                           ssm, IdMatrix(n, m, 0), IdVec(n, 100),
                           IdVec(n, 200), split, support)
              IN  /\ ssm' = [ssm EXCEPT !.feature_selector = r.sel]
                  /\ out' = [pc |-> "mutual_information_subset",
                             split |-> split, X |-> IdMatrix(n, m, 0),
                             y |-> IdVec(n, 100), s |-> IdVec(n, 200),
                             err |-> r.err, arg |-> r.arg, ret |-> r.ret]
                  /\ SubsetIdle

NextSelector ==
    \/ MakeSubsetTrain \/ MakeSubsetVal \/ MakeSubsetTest
    \/ PcaSubsetCall \/ MutualInformationSubsetCall

SpecSelector == InitSubset /\ [][NextSelector]_vars

(***************************************************************************)
(* first_subset called on its own: the engine, the action list and the     *)
(* data are drawn at the start, and the call is one step.                  *)
(***************************************************************************)
Actions == SUBSET {"rows", "features"}

FirstSubsetCall ==
    /\ out.pc = "new"
    /\ LET r == first_subset(ssm, out.X, out.y, out.s, out.action)
       IN  out' = [out EXCEPT !.pc = "first_subset", !.err = r.err,
                              !.ret = r.ret]
    /\ UNCHANGED ssm
    /\ SubsetIdle

InitFirst ==
    /\ ssm \in {SubsetMaker(sf, sr, "first", "first") :
                  sf \in 0..(MaxCols + 1), sr \in 0..(MaxRows + 1)}
    /\ \E n \in 1..MaxRows, m \in 1..MaxCols, action \in Actions :
         out = [pc |-> "new", action |-> action, X |-> IdMatrix(n, m, 0),
                y |-> IdVec(n, 100), s |-> IdVec(n, 200), err |-> "none",
                ret |-> <<>>]
    /\ ds = Idle /\ fs = Idle /\ rd = Idle /\ ret = Idle
    /\ cs = Idle /\ pd = Idle

NextFirst == FirstSubsetCall

SpecFirst == InitFirst /\ [][NextFirst]_vars

(***************************************************************************)
(* process_data.  A cell is a rational <<numerator, denominator>> in       *)
(* lowest terms, and NaN is <<0, 0>>.  pd holds the call's arguments and   *)
(* its locals X_train, X_val, X_test as the function advances.             *)
(***************************************************************************)
NaN == <<0, 0>>
IsNaN(c) == c[2] = 0

RECURSIVE GCD(_, _)
GCD(a, b) == IF b = 0 THEN a ELSE GCD(b, a % b)

\* the rational n / d (n >= 0, d > 0) in lowest terms
Rat(n, d) == <<n \div GCD(n, d), d \div GCD(n, d)>>

\* the sum of the rationals of a sequence, and their mean
RECURSIVE RatSum(_)
RatSum(q) ==
    IF q = <<>> THEN <<0, 1>>
    ELSE LET r == RatSum(Tail(q))
         IN  Rat(q[1][1] * r[2] + r[1] * q[1][2], q[1][2] * r[2])
RatMean(q) == LET u == RatSum(q) IN Rat(u[1], u[2] * Len(q))

\* the members of a sequence that satisfy Test, in order
RECURSIVE SelectSeqIdx(_, _)
SelectSeqIdx(q, S) ==
    IF q = <<>> THEN <<>>
    ELSE IF q[Len(q)] \in S
         THEN Append(SelectSeqIdx(SubSeq(q, 1, Len(q) - 1), S), q[Len(q)])
         ELSE SelectSeqIdx(SubSeq(q, 1, Len(q) - 1), S)

\* "num_mask = np.ones(..); num_mask[dataset.cat_idx] = 0"
NumMask(ncols, cat_idx) ==
    [j \in 1..ncols |-> IF (j - 1) \in Range(cat_idx) THEN 0 ELSE 1]

\* "assert num_mask.sum() + len(dataset.cat_idx) == dataset.X.shape[1]"
NumMaskAssertHolds(ncols, cat_idx) ==
    SumSeq(NumMask(ncols, cat_idx)) + Len(cat_idx) = ncols

\* np.where(num_mask)[0]: the columns whose mask is not 0, ascending
NumIdx(num_mask) ==
    SelectSeqIdx(Arange(Len(num_mask)), {j \in 0..(Len(num_mask) - 1) : num_mask[j + 1] # 0})

\* the columns of num_idx that hold no value in X_train, as 0-based columns
FullyNanColumns(X_train, num_idx) ==
    {num_idx[p] : p \in {q \in 1..Len(num_idx) :
        \A i \in 1..NumRows(X_train) : IsNaN(X_train.d[i][num_idx[q] + 1])}}

\* "X[:, num_idx[fully_nan_num_idcs]] = 0"
ZeroColumns(X, cols) ==
    [X EXCEPT !.d = [i \in 1..NumRows(X) |->
        [j \in 1..NumCols(X) |->
            IF (j - 1) \in cols THEN <<0, 1>> ELSE X.d[i][j]]]]

\* SimpleImputer.fit on the columns num_idx of X_train: per column, whether it
\* has an observed value and the mean of its observed values
ImputerStatistics(X_train, num_idx) ==
    [p \in 1..Len(num_idx) |->
        LET col == Column(X_train, num_idx[p])
            seen == SelectSeq(col, LAMBDA c : ~IsNaN(c))
        IN  [observed |-> seen # <<>>,
             mean |-> IF seen = <<>> THEN NaN ELSE RatMean(seen)]]

\* the positions of num_idx the fitted imputer keeps: it drops a column that
\* had no observed value in fit
ImputerKept(stats) ==
    SelectSeqIdx([p \in 1..Len(stats) |-> p],
                 {p \in 1..Len(stats) : stats[p].observed})

\* the fitted ColumnTransformer applied to X: the imputed numeric columns in
\* the order of num_idx, then the columns of cat_idx in the order cat_idx
\* lists them
ColumnTransform(X, num_idx, cat_idx, stats) ==
    LET kept == ImputerKept(stats)
    IN  [shape |-> <<NumRows(X), Len(kept) + Len(cat_idx)>>,
         d |-> [i \in 1..NumRows(X) |->
                  [j \in 1..(Len(kept) + Len(cat_idx)) |->
                      IF j <= Len(kept)
                      THEN LET c == X.d[i][num_idx[kept[j]] + 1]
                           IN  IF IsNaN(c) THEN stats[kept[j]].mean ELSE c
                      ELSE X.d[i][cat_idx[j - Len(kept)] + 1]]]]

\* the loop that builds perm_idx: st is <<perm_idx, running_num_idx,
\* running_cat_idx>> after the first j entries of num_mask
RECURSIVE PermIdxLoop(_, _, _)
PermIdxLoop(num_mask, len_num_idx, j) ==
    IF j = 0 THEN <<<<>>, 0, 0>>
    ELSE LET st == PermIdxLoop(num_mask, len_num_idx, j - 1)
         IN  IF num_mask[j] > 0
             THEN <<Append(st[1], st[2]), st[2] + 1, st[3]>>
             ELSE <<Append(st[1], st[3] + len_num_idx), st[2], st[3] + 1>>

PermIdx(num_mask) ==
    PermIdxLoop(num_mask, Len(NumIdx(num_mask)), Len(num_mask))[1]

\* "X[:, perm_idx]" fails on an index that is no column of X
ColumnsInRange(X, idx) == \A j \in 1..Len(idx) : idx[j] < NumCols(X)

\* the block "if impute:" on the three splits
Impute(c) ==
    LET num_idx == NumIdx(c.num_mask)
        fully   == FullyNanColumns(c.X_train, num_idx)
        tr0     == ZeroColumns(c.X_train, fully)
        va0     == ZeroColumns(c.X_val, fully)
        te0     == ZeroColumns(c.X_test, fully)
        stats   == ImputerStatistics(tr0, num_idx)
        tr1     == ColumnTransform(tr0, num_idx, c.cat_idx, stats)
        va1     == ColumnTransform(va0, num_idx, c.cat_idx, stats)
        te1     == ColumnTransform(te0, num_idx, c.cat_idx, stats)
        perm    == PermIdx(c.num_mask)
    IN  IF ~ColumnsInRange(tr1, perm)
        THEN [c EXCEPT !.pc = "raised", !.err = "IndexError"]
        ELSE [c EXCEPT !.pc = "imputed",
                       !.X_train = Take(tr1, Arange(NumRows(tr1)), perm),
                       !.X_val = Take(va1, Arange(NumRows(va1)), perm),
                       !.X_test = Take(te1, Arange(NumRows(te1)), perm)]

(***************************************************************************)
(* Scaling.  num_mask is an array of the integers 0 and 1, so X[:, num_mask]*)
(* is numpy's integer-array indexing: one column per entry of num_mask,    *)
(* column 1 for a numeric entry and column 0 for a categorical one.        *)
(***************************************************************************)
RLeq(a, b) == a[1] * b[2] <= b[1] * a[2]
\* a - b for a >= b, a + b, a * b, and a / b for b > 0
RSub(a, b) == Rat(a[1] * b[2] - b[1] * a[2], a[2] * b[2])
RAdd(a, b) == Rat(a[1] * b[2] + b[1] * a[2], a[2] * b[2])
RMul(a, b) == Rat(a[1] * b[1], a[2] * b[2])
RDiv(a, b) == Rat(a[1] * b[2], a[2] * b[1])

\* a sequence of rationals in ascending order: what
\* QuantileTransformer(n_quantiles=len(train_index)).fit keeps as quantiles_
\* of a column without NaN
RECURSIVE RSort(_)
RSort(q) ==
    IF q = <<>> THEN <<>>
    ELSE LET i == CHOOSE i \in 1..Len(q) : \A j \in 1..Len(q) : RLeq(q[i], q[j])
         IN  <<q[i]>> \o RSort([j \in 1..(Len(q) - 1) |->
                                   IF j < i THEN q[j] ELSE q[j + 1]])

\* QuantileTransformer._transform_col on one cell x, given the quantiles q
\* fitted at the references linspace(0, 1, n): the mean of np.interp read
\* forwards and backwards, then 1 at or above the last quantile and, applied
\* last, 0 at or below the first
QuantileTransformCell(x, q) ==
    LET n == Len(q)
        Reference(i, nq) == IF nq = 1 THEN <<0, 1>> ELSE Rat(i - 1, nq - 1)
    IN  IF IsNaN(x) THEN NaN
        ELSE IF RLeq(x, q[1]) THEN <<0, 1>>
        ELSE IF RLeq(q[n], x) THEN <<1, 1>>
        ELSE LET j == CHOOSE j \in 1..(n - 1) :
                          RLeq(q[j], x) /\ ~RLeq(q[j + 1], x)
                 k == CHOOSE k \in 2..n :
                          RLeq(x, q[k]) /\ ~RLeq(x, q[k - 1])
                 fwd == RAdd(Reference(j, n),
                             RMul(RDiv(RSub(x, q[j]), RSub(q[j + 1], q[j])),
                                  RSub(Reference(j + 1, n), Reference(j, n))))
                 back == RSub(Reference(k, n),
                              RMul(RDiv(RSub(q[k], x), RSub(q[k], q[k - 1])),
                                   RSub(Reference(k, n), Reference(k - 1, n))))
             IN  RMul(<<1, 2>>, RAdd(fwd, back))

\* scaler_function.transform(M) with the quantiles fitted on the columns of F
QuantileTransform(M, F) ==
    [M EXCEPT !.d = [i \in 1..NumRows(M) |-> [j \in 1..NumCols(M) |->
        QuantileTransformCell(M.d[i][j], RSort(Column(F, j - 1)))]]]

\* "X[:, idx] = T" for a list idx of column numbers: column idx[p] receives
\* column p of T, and the last p wins where idx names a column twice
AssignColumns(X, idx, T) ==
    [X EXCEPT !.d = [i \in 1..NumRows(X) |-> [j \in 1..NumCols(X) |->
        IF \E p \in 1..Len(idx) : idx[p] = j - 1
        THEN T.d[i][SetMax({p \in 1..Len(idx) : idx[p] = j - 1})]
        ELSE X.d[i][j]]]]

\* the block "if scaler != 'None':" on the three splits
Scale(c) ==
    IF ~ColumnsInRange(c.X_train, c.num_mask)
    THEN [c EXCEPT !.pc = "raised", !.err = "IndexError"]
    ELSE LET rows(X) == Arange(NumRows(X))
             fit == Take(c.X_train, rows(c.X_train), c.num_mask)
         IN  [c EXCEPT
                !.pc = "scaled",
                !.X_train = AssignColumns(c.X_train, c.num_mask,
                                          QuantileTransform(fit, fit)),
                !.X_val = AssignColumns(c.X_val, c.num_mask,
                              QuantileTransform(
                                  Take(c.X_val, rows(c.X_val), c.num_mask), fit)),
                !.X_test = AssignColumns(c.X_test, c.num_mask,
                              QuantileTransform(
                                  Take(c.X_test, rows(c.X_test), c.num_mask), fit))]

(***************************************************************************)
(* One-hot encoding.  OneHotEncoder(handle_unknown="ignore") is fitted on  *)
(* X_train[:, dataset.cat_idx]: its categories are the sorted distinct     *)
(* values of each of those columns, in the order cat_idx lists the columns.*)
(***************************************************************************)
RECURSIVE RSortSet(_)
RSortSet(S) ==
    IF S = {} THEN <<>>
    ELSE LET x == CHOOSE x \in S : \A y \in S : RLeq(x, y)
         IN  <<x>> \o RSortSet(S \ {x})

\* ohe.categories_
Categories(X, cat_idx) ==
    [p \in 1..Len(cat_idx) |-> RSortSet(Range(Column(X, cat_idx[p])))]

RECURSIVE FlattenSeq(_)
FlattenSeq(qq) == IF qq = <<>> THEN <<>> ELSE qq[1] \o FlattenSeq(Tail(qq))

\* ohe.transform on one row: per encoded column, one indicator per category,
\* all 0 for a value the fit did not see
OneHotRow(row, cat_idx, cats) ==
    FlattenSeq([p \in 1..Len(cat_idx) |->
                  [c \in 1..Len(cats[p]) |->
                      IF row[cat_idx[p] + 1] = cats[p][c] THEN <<1, 1>>
                      ELSE <<0, 1>>]])

\* np.concatenate([ohe.transform(X[:, cat_idx]), X[:, num_mask]], axis=1)
OneHotSplit(X, cat_idx, cats, num_mask) ==
    [shape |-> <<NumRows(X), Len(FlattenSeq(cats)) + Len(num_mask)>>,
     d |-> [i \in 1..NumRows(X) |->
              OneHotRow(X.d[i], cat_idx, cats)
                 \o [j \in 1..Len(num_mask) |-> X.d[i][num_mask[j] + 1]]]]

\* the block "if one_hot_encode:": the encoder refuses an array without
\* columns, and X[:, num_mask] an index that is no column
OneHot(c) ==
    IF c.cat_idx = <<>>
    THEN [c EXCEPT !.pc = "raised", !.err = "ValueError"]
    ELSE IF ~ColumnsInRange(c.X_train, c.num_mask)
    THEN [c EXCEPT !.pc = "raised", !.err = "IndexError"]
    ELSE LET cats == Categories(c.X_train, c.cat_idx)
         IN  [c EXCEPT
                !.pc = "encoded",
                !.X_train = OneHotSplit(c.X_train, c.cat_idx, cats, c.num_mask),
                !.X_test = OneHotSplit(c.X_test, c.cat_idx, cats, c.num_mask),
                !.X_val = OneHotSplit(c.X_val, c.cat_idx, cats, c.num_mask)]

(***************************************************************************)
(* Inputs of process_data: dataset.X[train_index], dataset.X[val_index]    *)
(* and dataset.X[test_index] of a dataset with nt train rows, one val row  *)
(* and one test row.  Every cell that holds a value holds a different one; *)
(* miss[j] says which cells of column j - 1 are missing.                   *)
(***************************************************************************)
\* "none": no cell; "train": every train cell; "part": the last train cell if
\* there are two or more, and the val cell
MissingPatterns == {"none", "train", "part"}

\* row i of nt + 2 rows: the train rows, then the val row, then the test row
CellMissing(pattern, i, nt) ==
    CASE pattern = "train" -> i <= nt
      [] pattern = "part"  -> (i = nt /\ nt >= 2) \/ i = nt + 1
      [] OTHER             -> FALSE

SplitRows(first, n, ncols, nt, miss) ==
    [shape |-> <<n, ncols>>,
     d |-> [i \in 1..n |-> [j \in 1..ncols |->
              IF CellMissing(miss[j], first + i - 1, nt) THEN NaN
              ELSE <<10 * (first + i - 1) + j, 1>>]]]

\* cat_idx of the dataset: distinct columns in any order, and one list that
\* names a column twice
PdCatIdxLists(ncols) ==
    {l \in CatIdxLists : \A i \in 1..Len(l) : l[i] < ncols} \cup {<<0, 0>>}

ProcessCall(ncols, nt, miss, cat_idx, impute, scaler, one_hot_encode, args) ==
    [ pc       |-> "called",
      impute   |-> impute,
      scaler   |-> scaler,
      one_hot_encode |-> one_hot_encode,
      args     |-> args,
      cat_idx  |-> cat_idx,
      num_mask |-> <<>>,
      X_in     |-> <<SplitRows(1, nt, ncols, nt, miss),
                     SplitRows(nt + 1, 1, ncols, nt, miss),
                     SplitRows(nt + 2, 1, ncols, nt, miss)>>,
      X_train  |-> SplitRows(1, nt, ncols, nt, miss),
      X_val    |-> SplitRows(nt + 1, 1, ncols, nt, miss),
      X_test   |-> SplitRows(nt + 2, 1, ncols, nt, miss),
      X_imputed |-> <<>>,
      X_scaled |-> <<>>,
      X_encoded |-> <<>>,
      y        |-> <<IdVec(nt, 100), IdVec(1, 100 + nt), IdVec(1, 101 + nt)>>,
      s        |-> <<IdVec(nt, 200), IdVec(1, 200 + nt), IdVec(1, 201 + nt)>>,
      ssm      |-> None,
      calls    |-> <<>>,
      err      |-> "none" ]

ProcessIdle == UNCHANGED <<ds, fs, rd, ret, ssm, out, cs>>

\* lines 433-448: the scaler's assertion, num_mask, its assertion, and the
\* three slices
PdSlice ==
    /\ pd.pc = "called"
    /\ pd' = IF /\ pd.scaler \in {"None", "Quantile"}
                /\ NumMaskAssertHolds(NumCols(pd.X_train), pd.cat_idx)
             THEN [pd EXCEPT !.pc = "sliced",
                             !.num_mask = NumMask(NumCols(pd.X_train), pd.cat_idx)]
             ELSE [pd EXCEPT !.pc = "raised", !.err = "AssertionError"]
    /\ ProcessIdle

\* lines 451-494
PdImpute ==
    /\ pd.pc = "sliced"
    /\ pd' = LET c == IF pd.impute THEN Impute(pd)
                      ELSE [pd EXCEPT !.pc = "imputed"]
             IN  IF c.pc = "imputed"
                 THEN [c EXCEPT !.X_imputed = <<c.X_train, c.X_val, c.X_test>>]
                 ELSE c
    /\ ProcessIdle

\* lines 496-501
PdScale ==
    /\ pd.pc = "imputed"
    /\ pd' = LET c == IF pd.scaler # "None" THEN Scale(pd)
                      ELSE [pd EXCEPT !.pc = "scaled"]
             IN  IF c.pc = "scaled"
                 THEN [c EXCEPT !.X_scaled = <<c.X_train, c.X_val, c.X_test>>]
                 ELSE c
    /\ ProcessIdle

\* lines 503-512
PdOneHot ==
    /\ pd.pc = "scaled"
    /\ pd' = LET c == IF pd.one_hot_encode THEN OneHot(pd)
                      ELSE [pd EXCEPT !.pc = "encoded"]
             IN  IF c.pc = "encoded"
                 THEN [c EXCEPT !.X_encoded = <<c.X_train, c.X_val, c.X_test>>]
                 ELSE c
    /\ ProcessIdle

\* lines 514-529: "args.num_features = X_train.shape[1]" comes before the
\* test "args is not None"; pd.ssm is dataset.ssm
PdArgs ==
    /\ pd.pc = "encoded"
    /\ pd' = IF IsNone(pd.args)
             THEN [pd EXCEPT !.pc = "raised", !.err = "AttributeError"]
             ELSE LET args == [Get(pd.args) EXCEPT
                                  !.num_features = NumCols(pd.X_train)]
                      wanted ==
                          /\ args.subset_features > 0 \/ args.subset_rows > 0
                          /\ \/ args.subset_features < args.num_features
                             \/ args.subset_rows < NumRows(pd.X_train)
                  IN  IF ~wanted
                      THEN [pd EXCEPT !.pc = "returned", !.args = Some(args)]
                      ELSE [pd EXCEPT
                              !.pc = "subset_train",
                              !.args = Some(args),
                              !.ssm = IF IsNone(pd.ssm)
                                      THEN Some(SubsetMaker(
                                               args.subset_features,
                                               args.subset_rows,
                                               args.subset_features_method,
                                               args.subset_rows_method))
                                      ELSE pd.ssm]
    /\ ProcessIdle

\* one "X, y, s = dataset.ssm.make_subset(X, y, s, split=.., seed=..)" on
\* split k of the three, and where process_data goes next
PdMakeSubset(k, split, next) ==
    LET X == <<pd.X_train, pd.X_val, pd.X_test>>[k]
    IN  \E draw \in Draws(Get(pd.ssm), X, split) :
          LET r == make_subset(Get(pd.ssm), X, pd.y[k], pd.s[k], split, draw)
              c == [pd EXCEPT !.calls = Append(pd.calls, split),
                              !.ssm = Some([Get(pd.ssm) EXCEPT
                                               !.feature_selector = r.sel])]
          IN  /\ pd' = IF r.err # "none"
                       THEN [c EXCEPT !.pc = "raised", !.err = r.err]
                       ELSE [c EXCEPT
                               !.pc = next,
                               !.X_train = IF k = 1 THEN r.ret[1] ELSE @,
                               !.X_val = IF k = 2 THEN r.ret[1] ELSE @,
                               !.X_test = IF k = 3 THEN r.ret[1] ELSE @,
                               !.y[k] = r.ret[2],
                               !.s[k] = r.ret[3]]
              /\ ProcessIdle

\* lines 530-536, and the test of line 537
PdSubsetTrain ==
    /\ pd.pc = "subset_train"
    /\ PdMakeSubset(1, "train",
                    IF Get(pd.args).subset_features < Get(pd.args).num_features
                    THEN "subset_val" ELSE "returned")

\* lines 538-544
PdSubsetVal == pd.pc = "subset_val" /\ PdMakeSubset(2, "val", "subset_test")

\* lines 545-551
PdSubsetTest == pd.pc = "subset_test" /\ PdMakeSubset(3, "test", "returned")

\* the calls of the model: calls on data with missing cells, which go through
\* imputation alone, calls on complete data, which scale or encode, and calls
\* on complete numeric data with a subset configuration args (the fields
\* process_data reads)
InitProcess ==
    /\ \E ncols \in 1..(MaxCols + 1), nt \in 1..MaxRows :
         \E cat_idx \in PdCatIdxLists(ncols) :
            \/ \E miss \in [1..ncols -> MissingPatterns], impute \in BOOLEAN :
                  pd = ProcessCall(ncols, nt, miss, cat_idx, impute,
                                   "None", FALSE, None)
            \/ \E impute \in BOOLEAN, scaler \in {"None", "Quantile"},
                  one_hot \in BOOLEAN :
                  /\ scaler # "None" \/ one_hot
                  /\ pd = ProcessCall(ncols, nt, [j \in 1..ncols |-> "none"],
                                      cat_idx, impute, scaler, one_hot, None)
            \/ /\ cat_idx = <<>>
               /\ \E sf \in 0..(MaxCols + 1), sr \in 0..(MaxRows + 1),
                     fm \in {"first", "mutual_information"},
                     rm \in {"first", "random"} :
                    pd = ProcessCall(ncols, nt, [j \in 1..ncols |-> "none"],
                                     cat_idx, TRUE, "None", FALSE,
                                     Some([subset_features |-> sf,
                                           subset_rows |-> sr,
                                           subset_features_method |-> fm,
                                           subset_rows_method |-> rm,
                                           num_features |-> 0]))
    /\ ds = Idle /\ fs = Idle /\ rd = Idle /\ ret = Idle
    /\ ssm = Idle /\ out = Idle /\ cs = Idle

NextProcess ==
    \/ PdSlice \/ PdImpute \/ PdScale \/ PdOneHot
    \/ PdArgs \/ PdSubsetTrain \/ PdSubsetVal \/ PdSubsetTest

SpecProcess == InitProcess /\ [][NextProcess]_vars

(***************************************************************************)
(* Properties of the container.                                            *)
(***************************************************************************)
\* the container o (an Optional) exists and its cat_dims is not None
CatDimsIsSet(o) == ~IsNone(o) /\ ~IsNone(o[1].cat_dims)

\* the number of distinct values in column j (0-based) of X
DistinctInColumn(X, j) == Cardinality(Range(Column(X, j)))

\* two dataset objects with the same X, y, s, split indices and metadata
SameDataset(a, b) ==
    /\ a.X = b.X
    /\ a.y = b.y
    /\ a.s = b.s
    /\ a.split_indeces.items = b.split_indeces.items
    /\ get_metadata(a) = get_metadata(b)

\* C1: a read that follows a write into a directory the write created returns,
\* without error, a dataset with the X, y, s, split indices and metadata of
\* the dataset written; so the write has stored all five files read requires.
C1_WriteThenRead ==
    (ret.op = "read" /\ fs.origin = "created")
        => /\ ret.err = "none"
           /\ ~IsNone(rd)
           /\ SameDataset(Get(rd), Get(ds))
           /\ ReadRequires \subseteq DOMAIN fs.files

\* C2: every dataset the constructor accepts has num_instances equal to the
\* rows of X, the length of y and the length of s, and num_features equal to
\* the columns of X.
C2_ShapesAgree ==
    ~IsNone(ds)
        => /\ Get(ds).num_instances = NumRows(Get(ds).X)
           /\ Get(ds).num_instances = Len(Get(ds).y)
           /\ Get(ds).num_instances = Len(Get(ds).s)
           /\ Get(ds).num_features = NumCols(Get(ds).X)

\* C6: a cat_feature_encode call on a container whose cat_dims is set (to any
\* list, also the empty one) raises and leaves the container as it was, and a
\* call that returns leaves cat_dims set: a second call always fails.
C6_EncodeTwiceFails ==
    [][ret'.op = "cat_feature_encode"
          => /\ CatDimsIsSet(ds) => (ret'.err = "RuntimeError" /\ ds' = ds)
             /\ ret'.err = "none" => CatDimsIsSet(ds')]_vars

C6_Witness ==
    /\ ret.op = "cat_feature_encode"
    /\ ret.err = "RuntimeError"
    /\ Get(ds).cat_dims = Some(<<>>)

\* C7: after a cat_feature_encode that returns, cat_dims is as long as cat_idx
\* and its j-th entry is the number of distinct values of column cat_idx[j].
C7_CatDimsFollowCatIdx ==
    (ret.op = "cat_feature_encode" /\ ret.err = "none")
        => /\ Len(Get(Get(ds).cat_dims)) = Len(Get(ds).cat_idx)
           /\ \A j \in 1..Len(Get(ds).cat_idx) :
                 Get(Get(ds).cat_dims)[j]
                     = DistinctInColumn(Get(ds).X, Get(ds).cat_idx[j])

\* C8: a write to an existing directory raises with overwrite false and leaves
\* the directory and every file in it as they were; with overwrite true it
\* returns, and the directory then holds the dataset's X, y and metadata.
C8_WriteExisting ==
    [][(ret'.op = "write" /\ fs.exists)
          => IF ret'.overwrite
               THEN /\ ret'.err = "none"
                    /\ fs'.files["X.npy.gz"] = NpSave(Get(ds).X)
                    /\ fs'.files["y.npy.gz"] = NpSave(Get(ds).y)
                    /\ fs'.files["metadata.json"] = JsonDump(get_metadata(Get(ds)))
               ELSE ret'.err # "none" /\ fs' = fs]_vars

C8_Witness ==
    /\ ret.op = "write"
    /\ ~ret.overwrite
    /\ ret.err = "FileExistsError"
    /\ fs.origin = "preexisting"
    /\ ReadRequires \subseteq DOMAIN fs.files

(***************************************************************************)
(* Properties of the subset engine.  out' is the call a step makes, ssm    *)
(* the engine before it and ssm' the engine after it.                      *)
(***************************************************************************)
\* the call made has X wider than the positive feature target
FeatureGateOpen(o) == o.pc = "called" /\ FeatureGate(ssm, o.X)
\* the call made has X longer than the positive row target
RowGateOpen(o) == o.pc = "called" /\ RowGate(ssm, o.X)

\* C3: with the mutual_information strategy, a train call on an X wider than
\* the feature target returns X reduced to subset_features columns together
\* with a y and an s of as many entries as X has rows; the first such call leaves a fitted selector in the engine
\* and a later one leaves the engine's selector as it found it.
C3_TrainFitsOnceAndReturns ==
    [][(/\ out'.pc = "called"
        /\ out'.split = "train"
        /\ ssm.subset_features_method = "mutual_information"
        /\ FeatureGate(ssm, out'.X))
          => /\ out'.err = "none"
             /\ Len(out'.ret) = 3
             /\ NumCols(out'.ret[1]) = ssm.subset_features
             /\ NumRows(out'.ret[1]) = Len(out'.ret[2])
             /\ NumRows(out'.ret[1]) = Len(out'.ret[3])
             /\ ~IsNone(ssm'.feature_selector)
             /\ ~IsNone(ssm.feature_selector)
                   => ssm'.feature_selector = ssm.feature_selector]_vars

\* C4: with the mutual_information or pca strategy, a val or test call on an
\* X wider than the feature target, made while the engine's selector slot is
\* empty (as it is until a train call), raises, returns nothing and leaves
\* the slot empty.
C4_TransformBeforeFitRaises ==
    [][(/\ out'.pc = "called"
        /\ out'.split \in {"val", "test"}
        /\ ssm.subset_features_method \in {"mutual_information", "pca"}
        /\ FeatureGate(ssm, out'.X)
        /\ IsNone(ssm.feature_selector))
          => /\ out'.err # "none"
             /\ out'.ret = <<>>
             /\ IsNone(ssm'.feature_selector)]_vars

C4_Witness ==
    /\ out.pc = "called"
    /\ out.split = "val"
    /\ ssm.subset_features_method = "mutual_information"
    /\ FeatureGate(ssm, out.X)
    /\ out.err = "AttributeError"
    /\ IsNone(ssm.feature_selector)

\* C10 as claimed: every make_subset call on an engine with an unrecognized
\* feature or row strategy name raises an error that names the strategy.
C10_UnrecognizedAlwaysRaises ==
    (/\ out.pc = "called"
     /\ \/ ssm.subset_features_method \notin FeatureMethods
        \/ ssm.subset_rows_method \notin RowMethods)
        => /\ out.err = "ValueError"
           /\ out.arg \in {ssm.subset_features_method, ssm.subset_rows_method}
           /\ out.arg \notin FeatureMethods \cup RowMethods

\* C10 as amended: an unrecognized feature strategy raises a ValueError that
\* names it whenever X is wider than the positive feature target; an
\* unrecognized row strategy makes the call raise whenever X is longer than
\* the positive row target, with a ValueError that names it unless the
\* feature branch raised first; an unrecognized name whose gate is closed
\* raises nothing.
C10_UnrecognizedRaisesBehindOpenGate ==
    out.pc = "called"
        => /\ (ssm.subset_features_method \notin FeatureMethods
                 /\ FeatureGateOpen(out))
              => (out.err = "ValueError"
                    /\ out.arg = ssm.subset_features_method)
           /\ (ssm.subset_rows_method \notin RowMethods /\ RowGateOpen(out))
              => /\ out.err # "none"
                 /\ (~FeatureGateOpen(out)
                       \/ ssm.subset_features_method \in {"random", "first"})
                    => (out.err = "ValueError"
                          /\ out.arg = ssm.subset_rows_method)
           /\ (~FeatureGateOpen(out) /\ ~RowGateOpen(out))
              => (out.err = "none" /\ out.ret = <<out.X, out.y, out.s>>)

C10_Witness ==
    /\ out.pc = "called"
    /\ ssm.subset_rows_method = Unrecognized
    /\ ssm.subset_features_method = "first"
    /\ FeatureGateOpen(out)
    /\ RowGateOpen(out)
    /\ out.err = "ValueError"
    /\ out.arg = Unrecognized

C12_SketchSelectsRows ==
    (/\ out.pc = "called"
     /\ ssm.subset_rows_method \in {"kmeans", "coreset"}
     /\ ~FeatureGateOpen(out))
        => IF out.split = "train"
           THEN RowGateOpen(out)
                  => /\ out.err = "none"
                     /\ Len(out.ret) = 3
                     /\ NumRows(out.ret[1]) = ssm.subset_rows
                     /\ Len(out.ret[2]) = ssm.subset_rows
                     /\ Len(out.ret[3]) = ssm.subset_rows
                     /\ \A i \in 1..ssm.subset_rows :
                          \E k \in 1..NumRows(out.X) :
                             /\ out.ret[1].d[i] = out.X.d[k]
                             /\ out.ret[2][i] = out.y[k]
                             /\ out.ret[3][i] = out.s[k]
           ELSE /\ out.err = "none"
                /\ out.ret = <<out.X, out.y, out.s>>

\* C15: on an engine with the mutual_information or pca strategy, no call
\* changes a feature selector that is set, and no val or test call changes
\* the selector slot at all.
C15_SelectorAssignedOnce ==
    [][(ssm.subset_features_method \in {"mutual_information", "pca"})
          => /\ ~IsNone(ssm.feature_selector)
                   => ssm'.feature_selector = ssm.feature_selector
             /\ out'.split \in {"val", "test"}
                   => ssm'.feature_selector = ssm.feature_selector]_vars

\* C17: a make_subset call that returns has reduced the columns exactly when
\* X is wider than a positive feature target (to subset_features columns) and
\* the rows exactly when X is longer than a positive row target (to
\* subset_rows rows), each whatever the other gate says; with neither, it
\* returns X, y and s as they came and does not raise; and what it returns
\* has one y and one s entry per row of X.
C17_GatesAreIndependent ==
    LET wide == NumCols(out.X) > ssm.subset_features /\ ssm.subset_features > 0
        long == NumRows(out.X) > ssm.subset_rows /\ ssm.subset_rows > 0
    IN  out.pc = "called"
          => /\ (~wide /\ ~long)
                  => out.err = "none" /\ out.ret = <<out.X, out.y, out.s>>
             /\ out.err = "none"
                  => /\ Len(out.ret) = 3
                     /\ NumRows(out.ret[1]) = Len(out.ret[2])
                     /\ NumRows(out.ret[1]) = Len(out.ret[3])
                     /\ NumCols(out.ret[1]) =
                           (IF wide THEN ssm.subset_features ELSE NumCols(out.X))
                     /\ NumRows(out.ret[1]) =
                           (IF long THEN ssm.subset_rows ELSE NumRows(out.X))
                     /\ ~wide => \A i \in 1..NumRows(out.ret[1]) :
                                    \E k \in 1..NumRows(out.X) :
                                       out.ret[1].d[i] = out.X.d[k]
                     /\ ~long => /\ out.ret[2] = out.y
                                 /\ out.ret[3] = out.s

\* a call with both gates open that returned one row and one column of a
\* two by two matrix
C17_Witness ==
    /\ out.pc = "called"
    /\ out.err = "none"
    /\ out.X.shape = <<2, 2>>
    /\ ssm.subset_features = 1
    /\ ssm.subset_rows = 1
    /\ out.ret[1].shape = <<1, 1>>

(***************************************************************************)
(* Properties of the coreset sampler.                                      *)
(***************************************************************************)
Distinct(q) == \A i, j \in 1..Len(q) : i # j => q[i] # q[j]

\* C5 as claimed: the sampler returns k indices, each a row of the features,
\* and they are pairwise distinct whenever k is at most the number of rows.
C5_IndicesDistinct ==
    cs.pc = "returned"
        => /\ Len(cs.idx) = cs.k
           /\ \A i \in 1..Len(cs.idx) : cs.idx[i] \in 0..(NumRows(cs.features) - 1)
           /\ cs.k <= NumRows(cs.features) => Distinct(cs.idx)

\* C5 as amended: the sampler returns k indices, each a row of the features,
\* and they are pairwise distinct whenever the rows of the features are
\* pairwise distinct and either k is less than the number of rows, or k
\* equals it and at least two starting points are drawn.
C5_IndicesDistinctOnDistinctRows ==
    cs.pc = "returned"
        => /\ Len(cs.idx) = cs.k
           /\ \A i \in 1..Len(cs.idx) : cs.idx[i] \in 0..(NumRows(cs.features) - 1)
           /\ (/\ Distinct(cs.features.d)
               /\ \/ cs.k < NumRows(cs.features)
                  \/ cs.k = NumRows(cs.features) /\ cs.M >= 2)
              => Distinct(cs.idx)

C5_Witness ==
    /\ cs.pc = "returned"
    /\ cs.k = NumRows(cs.features)
    /\ cs.k >= 2
    /\ cs.M >= 2
    /\ Distinct(cs.features.d)
    /\ Distinct(cs.idx)

\* C16: when the loop is entered each row's anchor distance is the mean of
\* its squared distances to the min(m, N) starting rows (held as the sum, M
\* times the mean); an iteration selects the lowest index among the rows of
\* maximal anchor distance and leaves each row with the minimum of its
\* previous anchor distance and its squared distance to the selected row
\* (held M-fold), so no anchor distance grows and every selected row is at 0;
\* there are at most k iterations.
C16_GreedyFarthestPoint ==
    [][(cs.pc = "loop" /\ cs'.pc = "loop")
          => LET N   == NumRows(cs.features)
                 sel == cs'.idx[Len(cs'.idx)]
                 row(i) == cs.features.d[i]
             IN  /\ Len(cs.idx) = 0
                      => /\ cs.M = (IF cs.m < N THEN cs.m ELSE N)
                         /\ Cardinality(cs.start) = cs.M
                         /\ \A i \in 1..N :
                               cs.dist[i] =
                                  SumSeq([p \in 1..cs.M |->
                                     SqDist(row(i), row(Ascending(cs.start)[p] + 1))])
                 /\ cs'.idx = Append(cs.idx, sel)
                 /\ Len(cs'.idx) <= cs.k
                 /\ sel \in 0..(N - 1)
                 /\ \A j \in 1..N : cs.dist[j] <= cs.dist[sel + 1]
                 /\ \A j \in 1..sel : cs.dist[j] < cs.dist[sel + 1]
                 /\ \A i \in 1..N :
                       LET d == cs.M * SqDist(row(i), row(sel + 1))
                       IN  /\ cs'.dist[i] = (IF cs.dist[i] <= d THEN cs.dist[i] ELSE d)
                           /\ cs'.dist[i] <= cs.dist[i]
                 /\ \A p \in 1..Len(cs'.idx) : cs'.dist[cs'.idx[p] + 1] = 0]_vars

\* two iterations done on two different rows, with a row still away from the
\* selected ones
C16_Witness ==
    /\ cs.pc = "loop"
    /\ Len(cs.idx) = 2
    /\ cs.idx[1] # cs.idx[2]
    /\ \E i \in 1..NumRows(cs.features) : cs.dist[i] > 0
    /\ \A p \in 1..2 : cs.dist[cs.idx[p] + 1] = 0

(***************************************************************************)
(* Properties of process_data.                                             *)
(***************************************************************************)
\* the 0-based numeric columns of the call that hold no value in the train
\* rows given
InputFullyNan ==
    {j \in 0..(NumCols(pd.X_in[1]) - 1) :
        /\ j \notin Range(pd.cat_idx)
        /\ \A i \in 1..NumRows(pd.X_in[1]) : IsNaN(pd.X_in[1].d[i][j + 1])}

\* column j of the output split Xo is all zero
ColumnIsZero(Xo, j) == \A i \in 1..NumRows(Xo) : Xo.d[i][j + 1] = <<0, 1>>

\* column j of the output split Xo is at the index it had in the input split
\* Xi: each value of the input column is still in its cell
ColumnKeepsIndex(Xi, Xo, j) ==
    /\ j < NumCols(Xo)
    /\ \A i \in 1..NumRows(Xi) :
          ~IsNaN(Xi.d[i][j + 1]) => Xo.d[i][j + 1] = Xi.d[i][j + 1]

\* C9: after imputation, a numeric column with no value in train is zero in
\* train, val and test, every split is as wide as it came in, and every other
\* column is at the index it had.
C9_FullyMissingColumnZeroed ==
    (pd.pc = "imputed" /\ pd.impute /\ InputFullyNan # {})
        => \A k \in 1..3 :
             LET Xi == pd.X_in[k]
                 Xo == <<pd.X_train, pd.X_val, pd.X_test>>[k]
             IN  /\ NumCols(Xo) = NumCols(Xi)
                 /\ NumRows(Xo) = NumRows(Xi)
                 /\ \A j \in 0..(NumCols(Xi) - 1) :
                       IF j \in InputFullyNan THEN ColumnIsZero(Xo, j)
                       ELSE ColumnKeepsIndex(Xi, Xo, j)

\* the three splits as process_data holds them now
SplitsNow == <<pd.X_train, pd.X_val, pd.X_test>>

\* C13: after scaling, every numeric column of train, val and test holds the
\* quantile transform (fitted on that column of train) of what it held before
\* scaling, and every categorical column holds what it held before.
C13_ScalesNumericColumns ==
    (pd.pc = "scaled" /\ pd.scaler = "Quantile")
        => \A k \in 1..3 :
             \A j \in 0..(NumCols(pd.X_imputed[k]) - 1) :
                IF j \in Range(pd.cat_idx)
                THEN Column(SplitsNow[k], j) = Column(pd.X_imputed[k], j)
                ELSE Column(SplitsNow[k], j) =
                       [i \in 1..NumRows(pd.X_imputed[k]) |->
                           QuantileTransformCell(
                               pd.X_imputed[k].d[i][j + 1],
                               RSort(Column(pd.X_imputed[1], j)))]

\* column j of split k of the call's input, imputed as a numeric column: a
\* column with no value in train is zero, and a missing cell of another
\* column is the mean of the column's train values
ImputedColumn(k, j) ==
    LET seen == SelectSeq(Column(pd.X_in[1], j), LAMBDA c : ~IsNaN(c))
    IN  [i \in 1..NumRows(pd.X_in[k]) |->
            IF seen = <<>> THEN <<0, 1>>
            ELSE IF IsNaN(pd.X_in[k].d[i][j + 1]) THEN RatMean(seen)
            ELSE pd.X_in[k].d[i][j + 1]]

\* C14: after imputation, whatever the order of cat_idx, column j of every
\* split holds input column j, imputed if j is numeric and as it came if j
\* is categorical.
C14_ColumnsBackInPlace ==
    (pd.pc = "imputed" /\ pd.impute)
        => \A k \in 1..3 :
             /\ SplitsNow[k].shape = pd.X_in[k].shape
             /\ \A j \in 0..(NumCols(pd.X_in[k]) - 1) :
                   Column(SplitsNow[k], j) =
                      IF j \in Range(pd.cat_idx) THEN Column(pd.X_in[k], j)
                      ELSE ImputedColumn(k, j)

\* C18: after one-hot encoding every split is the indicator columns of the
\* categorical columns (one per category seen in train) followed by the
\* numeric columns, each once and in ascending order: the width is the
\* number of indicator columns plus the number of numeric columns.
C18_EncodedThenNumeric ==
    (pd.pc = "encoded" /\ pd.one_hot_encode /\ pd.cat_idx # <<>>)
        => LET width == Len(FlattenSeq(Categories(pd.X_scaled[1], pd.cat_idx)))
               num == NumIdx(pd.num_mask)
           IN  \A k \in 1..3 :
                 /\ SplitsNow[k].shape =
                       <<NumRows(pd.X_scaled[k]), width + Len(num)>>
                 /\ \A i \in 1..NumRows(pd.X_scaled[k]) :
                      /\ SubSeq(SplitsNow[k].d[i], 1, width) =
                            OneHotRow(pd.X_scaled[k].d[i], pd.cat_idx,
                                      Categories(pd.X_scaled[1], pd.cat_idx))
                      /\ \A q \in 1..Len(num) :
                            SplitsNow[k].d[i][width + q] =
                               pd.X_scaled[k].d[i][num[q] + 1]

\* C19: a call without args does not fail for want of them; a call that
\* returns with no positive target below its dimension returns the three
\* preprocessed triples; a call with such a target has gone to the engine;
\* and the engine is called on train, then val, then test, on the engine
\* built from args.
C19_SubsetWhenConfigured ==
    LET smaller == /\ ~IsNone(pd.args)
                   /\ pd.X_encoded # <<>>
                   /\ LET a == Get(pd.args)
                      IN  \/ a.subset_features > 0
                             /\ a.subset_features < NumCols(pd.X_encoded[1])
                          \/ a.subset_rows > 0
                             /\ a.subset_rows < NumRows(pd.X_encoded[1])
    IN  /\ IsNone(pd.args) => pd.err # "AttributeError"
        /\ (pd.pc = "returned" /\ ~smaller)
              => /\ SplitsNow = pd.X_encoded
                 /\ Len(pd.y[1]) = NumRows(pd.X_encoded[1])
                 /\ Len(pd.s[1]) = NumRows(pd.X_encoded[1])
        /\ (pd.pc = "returned" /\ smaller) => pd.calls # <<>>
        /\ pd.calls = SubSeq(<<"train", "val", "test">>, 1, Len(pd.calls))
        /\ pd.calls # <<>>
              => /\ ~IsNone(pd.ssm)
                 /\ Get(pd.ssm).subset_features = Get(pd.args).subset_features
                 /\ Get(pd.ssm).subset_rows = Get(pd.args).subset_rows

=============================================================================
